---- MODULE Spec2Model ----
(***************************************************************************)
(* Model of the cardrank deal orchestrator (deck.go): Deck, Run, Dealer    *)
(* and the Result bookkeeping of the Dealer.                               *)
(*                                                                         *)
(* Positions are 0..Count-1 as in the source.  Go slices are modelled as   *)
(* TLA+ sequences, so the Go index k is the TLA+ index k+1 (Runs[R+1],     *)
(* Streets[S+1]).  A nil slice and an empty slice are both <<>>.           *)
(***************************************************************************)
EXTENDS Integers, Sequences, FiniteSets, TLC

\* ------------------------------------------------------------------ bounds
\* number of positions handed to NewDealer
Count == 3
\* number of (distinct) cards of the deck
DeckSize == 16
\* largest argument given to ChangeRuns
MaxRuns == 3
\* how many times Next may be called past the end of the streets
MaxOver == 1
\* how many writes are made to a run and its duplicate
MaxMemOps == 2
\* number of cards of a deck drawn from on its own
DeckLen == 3
\* largest count given to Deck.Draw
MaxDraw == 2
\* largest number of passes given to Deck.Shuffle
MaxShuffles == 1
\* largest cut of a shuffled deck handed to a dealer
MaxCut == 3
\* largest pivot given to NewWin
MaxPivot == 3

VARIABLES
    TypeDesc,   \* Dealer.TypeDesc: [Streets, Max, Low, Double]
    Deck,       \* Dealer.Deck: [I, L, V]
    Active,     \* Dealer.Active: the keys of the map
    Runs,       \* Dealer.Runs
    Results,    \* Dealer.Results (<<>> is nil)
    RunCount,   \* Dealer.RunCount
    ST,         \* Dealer.ST
    S,          \* Dealer.S
    R,          \* Dealer.R
    E,          \* Dealer.E
    lastOp,     \* the method called last
    lastRet,    \* the value it returned
    fault,      \* "none", or the run-time panic that ended the program
    dealLog,    \* the <<street, run>> pairs handed to Deal since init
    heap,       \* the backing arrays of the slices of two runs
    orig,       \* a Run, as the slice headers of its fields
    copy,       \* the Run its Dupe returned
    memLast,    \* the run written through last
    memOps,     \* number of writes made so far
    dk,         \* a Deck used on its own: [I, L, V]
    drawn,      \* the cards Draw returned since the cursor was last 0
    dkMid,      \* "steady", or what was done to the deck in mid-draw
    dkFault,    \* "none", or the run-time panic of a Deck method
    hiWin,      \* the Hi Win Result.Win returned
    loWin,      \* the Lo Win Result.Win returned
    win,        \* a Win built by NewWin
    winOp,      \* "Win", "Verb" or "Invalid": the method called last
    winSide,    \* the Win it was called on: "hi", "lo" or "win"
    verb,       \* what Win.Verb returned
    invalid,    \* what Win.Invalid returned
    winFault    \* "none", or the run-time panic of a Result or Win method

\* the Dealer, and the storage of a Run and its duplicate
dealerVars == <<TypeDesc, Deck, Active, Runs, Results, RunCount, ST, S, R, E,
                lastOp, lastRet, fault, dealLog>>

memVars == <<heap, orig, copy, memLast, memOps>>

\* a Deck drawn from directly
deckVars == <<dk, drawn, dkMid, dkFault>>

\* the Wins of a Result
winVars == <<hiWin, loWin, win, winOp, winSide, verb, invalid, winFault>>

vars == <<dealerVars, memVars, deckVars, winVars>>

Min2(a, b) == IF a <= b THEN a ELSE b
Max2(a, b) == IF a >= b THEN a ELSE b

Positions == 0 .. (Count - 1)

\* -------------------------------------------------------------- variants
\* A street descriptor, with the fields Deal reads.
StreetDesc(p, pd, b, bd) ==
    [Pocket |-> p, PocketDiscard |-> pd, Board |-> b, BoardDiscard |-> bd]

\* The variant descriptors the dealer is built for: a board game, a
\* stud-like game dealing pockets on every street, a double board game,
\* a one-street game capped at one participant, and a game of no streets.
Variants ==
    { [Streets |-> << StreetDesc(1, 0, 0, 0), StreetDesc(0, 0, 2, 1),
                      StreetDesc(0, 0, 1, 1) >>,
       Max |-> 2, Low |-> FALSE, Double |-> FALSE],
      [Streets |-> << StreetDesc(1, 1, 0, 0), StreetDesc(1, 1, 0, 0) >>,
       Max |-> 2, Low |-> TRUE, Double |-> FALSE],
      [Streets |-> << StreetDesc(1, 0, 0, 0), StreetDesc(0, 0, 1, 1) >>,
       Max |-> 2, Low |-> FALSE, Double |-> TRUE],
      [Streets |-> << StreetDesc(2, 0, 0, 0) >>,
       Max |-> 1, Low |-> FALSE, Double |-> FALSE],
      [Streets |-> << >>,
       Max |-> 2, Low |-> FALSE, Double |-> FALSE] }

Streets == TypeDesc.Streets

\* ------------------------------------------------------------------ Deck
\* DeckOf: the cards 1..DeckSize in order, L = len(V), I = 0.
DeckOf == [I |-> 0, L |-> DeckSize, V |-> [k \in 1 .. DeckSize |-> k]]

\* a Reset that leaves the cursor where it is
DeckResetKeep(d) == d

\* Deck.Reset
DeckReset(d) == [d EXCEPT !.I = 0]

\* a Draw that ignores the limit L
DrawCardsNoLimit(d, count) ==
    IF count < 0 THEN << >>
    ELSE SubSeq(d.V, d.I + 1, Min2(d.I + count, Len(d.V)))

\* Deck.Draw: the cards returned ...
DrawCards(d, count) ==
    IF count < 0 THEN << >>
    ELSE SubSeq(d.V, d.I + 1, Min2(d.I + count, d.L))

\* a Draw that forgets to advance the cursor
DrawStuck(d, count) == d

\* ... and the deck it leaves: I advances to min(I+count, L), never back
Draw(d, count) ==
    IF count < 0 THEN d
    ELSE [d EXCEPT !.I = Max2(d.I, Min2(d.I + count, d.L))]

\* ------------------------------------------------------------------- Run
NewRun ==
    [Discard |-> << >>, Pockets |-> [i \in Positions |-> << >>],
     Hi |-> << >>, Lo |-> << >>]

\* a Dupe that forgets the Hi board
DupeNoHi(run) ==
    [Discard |-> << >>, Pockets |-> run.Pockets, Hi |-> << >>, Lo |-> run.Lo]

\* Run.Dupe copies Pockets, Hi and Lo; Discard is left nil.
Dupe(run) ==
    [Discard |-> << >>, Pockets |-> run.Pockets, Hi |-> run.Hi, Lo |-> run.Lo]

\* ---------------------------------------------------------------- Dealer
\* Dealer.HasActive, reading a street index s
HasActiveAt(s) == 0 <= s /\ (TypeDesc.Max = 1 \/ 1 < Cardinality(Active))

HasActive == HasActiveAt(S)

\* Dealer.HasNext
HasNext == Len(Streets) # 0 /\ S < Len(Streets) - 1

\* Deal works on a pair [run, deck]: every append draws from the deck.
\* Each statement of Deal takes the pair the one before it left, as a value
\* v computed once, and leaves one pair: the element of a one-element set.
TheOne(set) == CHOOSE r \in set : TRUE

DiscardN(st, n) ==
    TheOne({ IF 0 < n
             THEN [run  |-> [v.run EXCEPT
                                !.Discard = @ \o DrawCards(v.deck, n)],
                   deck |-> Draw(v.deck, n)]
             ELSE v : v \in {st} })

\* a pocket loop running from the last position down
PocketTargetBack(k) == (Count - 1) - (k % Count)

\* the position the k-th single-card pocket draw of a street goes to:
\* for range p { for i := range d.Count { ... } }
PocketTarget(k) == k % Count

RECURSIVE DealPockets(_, _, _)
DealPockets(st, k, total) ==
    TheOne({ IF k >= total THEN v
             ELSE DealPockets(
                     [run  |-> [v.run EXCEPT !.Pockets[PocketTarget(k)] =
                                                   @ \o DrawCards(v.deck, 1)],
                      deck |-> Draw(v.deck, 1)],
                     k + 1, total) : v \in {st} })

DealHi(st, b) ==
    TheOne({ [run  |-> [v.run EXCEPT !.Hi = @ \o DrawCards(v.deck, b)],
              deck |-> Draw(v.deck, b)] : v \in {st} })

DealLo(st, b) ==
    TheOne({ [run  |-> [v.run EXCEPT !.Lo = @ \o DrawCards(v.deck, b)],
              deck |-> Draw(v.deck, b)] : v \in {st} })

\* Dealer.Deal(street, run) on deck d: the run and the deck afterwards
Deal(street, run, d) ==
    LET desc == Streets[street + 1]
        s0 == [run |-> run, deck |-> d]
        s1 == IF 0 < desc.Pocket
              THEN DealPockets(DiscardN(s0, desc.PocketDiscard), 0,
                               desc.Pocket * Count)
              ELSE s0
        hi == DealHi(DiscardN(s1, desc.BoardDiscard), desc.Board)
        s2 == IF 0 < desc.Board
              THEN IF TypeDesc.Double
                   THEN DealLo(DiscardN(hi, desc.BoardDiscard), desc.Board)
                   ELSE hi
              ELSE s1
    IN  s2

\* ---------------------------------------------------------------- Result
\* The evaluator, EvalOf and Order are collaborators outside src/.
\* The rank marker of "no usable hand".
Invalid == 65535

RECURSIVE SumCards(_)
SumCards(cards) ==
    IF cards = << >> THEN 0 ELSE Head(cards) + SumCards(Tail(cards))

\* evaluator: a rank for pocket and board, 1 the strongest
HiRankOf(pocket, board) == 1 + (SumCards(pocket \o board) % 3)

\* evaluator, low side: a rank when the hand qualifies, else Invalid
LoRankOf(pocket, board) ==
    IF SumCards(pocket \o board) % 2 = 0
    THEN 1 + (SumCards(pocket \o board) % 3)
    ELSE Invalid

\* the absent entry of Evals ((*Eval)(nil))
NilEval == [nil |-> TRUE, HiRank |-> 0, LoRank |-> 0]

\* EvalOf(typ): an evaluation holding no hand yet
EvalOf == [nil |-> FALSE, HiRank |-> Invalid, LoRank |-> Invalid]

\* Run.Eval: one entry per position, absent for the inactive ones
RunEval(run, active) ==
    [i \in Positions |->
        IF i \in active
        THEN [nil    |-> FALSE,
              HiRank |-> HiRankOf(run.Pockets[i], run.Hi),
              LoRank |-> IF TypeDesc.Double
                         THEN HiRankOf(run.Pockets[i], run.Lo)
                         ELSE IF TypeDesc.Low
                              THEN LoRankOf(run.Pockets[i], run.Hi)
                              ELSE Invalid]
        ELSE NilEval]

RankIn(ev, low) == IF low THEN ev.LoRank ELSE ev.HiRank

\* the positions of `left` strongest first, ties in ascending position
RECURSIVE OrderOf(_, _, _)
OrderOf(evs, left, low) ==
    IF left = {} THEN << >>
    ELSE LET best == CHOOSE i \in left :
                        \A j \in left :
                            \/ RankIn(evs[i], low) < RankIn(evs[j], low)
                            \/ /\ RankIn(evs[i], low) = RankIn(evs[j], low)
                               /\ i <= j
         IN  << best >> \o OrderOf(evs, left \ {best}, low)

\* Order(evs, low): the order and its pivot
Order(evs, low) ==
    LET present == {i \in DOMAIN evs : ~evs[i].nil}
        order   == OrderOf(evs, present, low)
        top     == RankIn(evs[order[1]], low)
        pivot   == IF order = << >> \/ top = Invalid THEN 0
                   ELSE Cardinality({k \in 1 .. Len(order) :
                                        RankIn(evs[order[k]], low) = top})
    IN  [order |-> order, pivot |-> pivot]

\* NewResult(typ, run, active, false)
NewResult(run, active) ==
    LET evs == RunEval(run, active)
        hi  == Order(evs, FALSE)
        lo  == IF TypeDesc.Low \/ TypeDesc.Double
               THEN Order(evs, TRUE)
               ELSE [order |-> << >>, pivot |-> 0]
    IN  [Evals |-> evs, HiOrder |-> hi.order, HiPivot |-> hi.pivot,
         LoOrder |-> lo.order, LoPivot |-> lo.pivot]

\* the Result NextResult builds when one position is left
SingleResult ==
    LET i == IF Active = {} THEN Count
             ELSE CHOOSE a \in Active : \A b \in Active : a <= b
        lo == TypeDesc.Low \/ TypeDesc.Double
    IN  [Evals |-> [k \in {0} |-> EvalOf],
         HiOrder |-> << i >>, HiPivot |-> 1,
         LoOrder |-> IF lo THEN << i >> ELSE << >>,
         LoPivot |-> IF lo THEN 1 ELSE 0]

\* the Results NextResult leaves (computed on the first call only)
ComputeResults ==
    LET n == Cardinality(Active)
    IN  IF Results # << >> THEN Results
        ELSE IF n = 1 /\ RunCount = 1 /\ TypeDesc.Max # 1
             THEN << SingleResult >>
        ELSE IF n > 1 \/ TypeDesc.Max = 1
             THEN [i \in 1 .. RunCount |-> NewResult(Runs[i], Active)]
        ELSE << >>

\* Dealer.Result: the index d.Results[d.E] it reads, -1 when it returns nil
ResultIndex == IF 0 <= E /\ E < RunCount THEN E ELSE -1

\* Dealer.Result reads past the end of Results (index out of range)
ResultFaults == ResultIndex # -1 /\ Len(Results) <= ResultIndex

\* ------------------------------------------------------------------- Win
\* (*Win)(nil)
NilWin ==
    [nil |-> TRUE, Evals |-> << >>, Order |-> << >>, Pivot |-> 0,
     Low |-> FALSE, Scoop |-> FALSE]

\* NewWin(evs, order, pivot, low, scoop, names)
NewWin(evs, order, pivot, low, scoop) ==
    [nil |-> FALSE, Evals |-> evs, Order |-> order, Pivot |-> pivot,
     Low |-> low, Scoop |-> scoop]

\* Result.Win reads res.Evals[res.HiOrder[0]] out of range
WinFaults(res) ==
    res.HiOrder = << >> \/ res.HiOrder[1] \notin DOMAIN res.Evals

\* a scoop flag that forgets the Lo Win
ScoopAlways(low, lo) == low

\* the scoop flag of the Hi Win: low && lo == nil
ScoopOf(low, lo) == low /\ lo.nil

\* Result.Win: the Lo Win ...
LoWinOf(res) ==
    IF res.LoOrder # << >> /\ res.LoPivot # 0
    THEN NewWin(res.Evals, res.LoOrder, res.LoPivot, TRUE, FALSE)
    ELSE NilWin

\* ... and the Hi Win; low is Type.Low() of the evaluation at the head
HiWinOf(res) ==
    NewWin(res.Evals, res.HiOrder, res.HiPivot, FALSE,
           ScoopOf(TypeDesc.Low, LoWinOf(res)))

\* Win.Verb
Verb(w) ==
    IF w.Scoop THEN "scoops"
    ELSE IF w.Pivot > 2 THEN "push"
    ELSE IF w.Pivot = 2 THEN "split"
    ELSE IF w.Pivot = 0 THEN "none"
    ELSE "wins"

\* Eval.Desc(low): the description of an evaluation, absent for no evaluation
NilDesc == [nil |-> TRUE, Rank |-> 0]

DescOf(ev, low) ==
    IF ev.nil THEN NilDesc ELSE [nil |-> FALSE, Rank |-> RankIn(ev, low)]

\* the first switch of Win.Invalid: the cases that return false at once
InvalidShort(w) ==
    \/ w.nil
    \/ w.Pivot = 0
    \/ DOMAIN w.Evals = {}
    \/ w.Order = << >>

\* Win.Invalid reads win.Evals[win.Order[0]] out of range
InvalidFaults(w) == ~InvalidShort(w) /\ w.Order[1] \notin DOMAIN w.Evals

\* Win.Invalid
WinInvalid(w) ==
    IF InvalidShort(w) THEN FALSE
    ELSE LET d == DescOf(w.Evals[w.Order[1]], w.Low)
         IN  d.nil \/ d.Rank = 0 \/ d.Rank = Invalid

\* ------------------------------------------------- the storage of a Run
\* A Go slice is a header [ptr, len, cap] on a backing array; ptr 0 is
\* nil.  heap.cards holds the arrays of cards, heap.hdrs the arrays of
\* slice headers (the outer array of Run.Pockets); an address is an index.
NilSlice == [ptr |-> 0, len |-> 0, cap |-> 0]

EmptyHeap == [cards |-> << >>, hdrs |-> << >>]

NilRun ==
    [Discard |-> NilSlice, Pockets |-> NilSlice, Hi |-> NilSlice,
     Lo |-> NilSlice]

\* the cards a slice of cards holds
SliceCards(h, s) ==
    IF s.ptr = 0 THEN << >> ELSE SubSeq(h.cards[s.ptr], 1, s.len)

\* the headers a slice of slices holds
SliceHdrs(h, s) ==
    IF s.ptr = 0 THEN << >> ELSE SubSeq(h.hdrs[s.ptr], 1, s.len)

\* a run by content, as the Dealer reads it
ContentOf(h, run) ==
    [Discard |-> SliceCards(h, run.Discard),
     Pockets |-> [i \in 0 .. (run.Pockets.len - 1) |->
                     SliceCards(h, SliceHdrs(h, run.Pockets)[i + 1])],
     Hi      |-> SliceCards(h, run.Hi),
     Lo      |-> SliceCards(h, run.Lo)]

\* a copy that shares the backing array of its source
ShareCards(h, s) == [heap |-> h, slice |-> s]

\* make([]Card, len(s)) and copy(dst, s): a fresh array of cap = len
MakeCopyCards(h, s) ==
    [heap  |-> [h EXCEPT !.cards = Append(@, SliceCards(h, s))],
     slice |-> [ptr |-> Len(h.cards) + 1, len |-> s.len, cap |-> s.len]]

\* if run.Hi != nil { r.Hi = make(...); copy(...) }, and so for Lo
CopyBoard(h, s) ==
    IF s.ptr = 0 THEN [heap |-> h, slice |-> NilSlice]
    ELSE MakeCopyCards(h, s)

\* the loop of Dupe over run.Pockets: done holds the headers made so far
RECURSIVE CopyPockets(_, _, _)
CopyPockets(h, src, done) ==
    IF Len(done) >= Len(src) THEN [heap |-> h, hdrs |-> done]
    ELSE LET c == MakeCopyCards(h, src[Len(done) + 1])
         IN  CopyPockets(c.heap, src, Append(done, c.slice))

\* Run.Dupe on the heap h: the heap and the new run
HeapDupe(h, run) ==
    LET p  == IF run.Pockets.ptr = 0
              THEN [heap |-> h, slice |-> NilSlice]
              ELSE LET c == CopyPockets(h, SliceHdrs(h, run.Pockets), << >>)
                   IN  [heap  |-> [c.heap EXCEPT !.hdrs = Append(@, c.hdrs)],
                        slice |-> [ptr |-> Len(c.heap.hdrs) + 1,
                                   len |-> run.Pockets.len,
                                   cap |-> run.Pockets.len]]
        hi == CopyBoard(p.heap, run.Hi)
        lo == CopyBoard(hi.heap, run.Lo)
    IN  [heap |-> lo.heap,
         run  |-> [Discard |-> NilSlice, Pockets |-> p.slice,
                   Hi |-> hi.slice, Lo |-> lo.slice]]

\* append(s, c): in place when capacity is left, else on a fresh array
\* with `grow` spare elements (the growth is the runtime's choice)
GoAppend(h, s, c, grow) ==
    IF s.len < s.cap
    THEN [heap  |-> [h EXCEPT !.cards[s.ptr][s.len + 1] = c],
          slice |-> [s EXCEPT !.len = @ + 1]]
    ELSE [heap  |-> [h EXCEPT !.cards =
                        Append(@, SliceCards(h, s) \o << c >>
                                      \o [k \in 1 .. grow |-> 0])],
          slice |-> [ptr |-> Len(h.cards) + 1, len |-> s.len + 1,
                     cap |-> s.len + 1 + grow]]

\* the slices of cards of a Run: Discard, Hi, Lo and Pockets[pos]
BoardFields == {"Discard", "Hi", "Lo"}

CardSlices ==
    {[part |-> f, pos |-> 0] : f \in BoardFields}
        \cup {[part |-> "Pockets", pos |-> i] : i \in Positions}

\* the header of the slice f of a run
HeaderOf(h, run, f) ==
    IF f.part = "Pockets"
    THEN SliceHdrs(h, run.Pockets)[f.pos + 1]
    ELSE run[f.part]

\* a run built by NewRun and dealt the cards given, `spare` elements of
\* capacity left in every array
DealtRun(disc, hi, lo, pk, spare) ==
    LET pad(c) == c \o [k \in 1 .. spare |-> 0]
        hdr(a, c) == IF c = << >> THEN NilSlice
                     ELSE [ptr |-> a, len |-> Len(c), cap |-> Len(c) + spare]
    IN  [heap |-> [cards |-> << pad(disc), pad(hi), pad(lo) >>
                               \o [i \in 1 .. Count |-> pad(pk[i])],
                   hdrs  |-> << [i \in 1 .. Count |-> hdr(3 + i, pk[i])] >>],
         run  |-> [Discard |-> hdr(1, disc),
                   Pockets |-> [ptr |-> 1, len |-> Count, cap |-> Count],
                   Hi |-> hdr(2, hi), Lo |-> hdr(3, lo)]]


\* ---------------------------------------------------------------- state
\* Dealer.init, with the deck d
DealerInit(d) ==
    /\ Deck = d
    /\ Active = Positions
    /\ Runs = << NewRun >>
    /\ Results = << >>
    /\ RunCount = 1
    /\ ST = -1
    /\ S = -1
    /\ R = -1
    /\ E = -1

\* NewDealer(desc, deck, count)
NewDealer(desc) ==
    /\ TypeDesc = desc
    /\ DealerInit(DeckOf)
    /\ lastOp = "NewDealer"
    /\ lastRet = TRUE
    /\ fault = "none"
    /\ dealLog = << >>

\* no Deck is in use apart from the Dealer's
DeckIdle ==
    /\ dk = [I |-> 0, L |-> 0, V |-> << >>]
    /\ drawn = << >>
    /\ dkMid = "steady"
    /\ dkFault = "none"

\* no Win has been asked for
WinIdle ==
    /\ hiWin = NilWin
    /\ loWin = NilWin
    /\ win = NilWin
    /\ winOp = "none"
    /\ winSide = "none"
    /\ verb = ""
    /\ invalid = FALSE
    /\ winFault = "none"

Init ==
    /\ \E desc \in Variants : NewDealer(desc)
    /\ heap = EmptyHeap
    /\ orig = NilRun
    /\ copy = NilRun
    /\ memLast = "none"
    /\ memOps = 0
    /\ DeckIdle
    /\ WinIdle

\* the arguments given to Deactivate: the first position, the last one, a
\* position out of range, or the first two
DeactivateArgs == {{0}, {Count - 1}, {Count}, {0, 1}}

\* a check that never refuses
DeactivateOkAlways == TRUE

\* a check that refuses on run 0 as well
DeactivateOkNotStarted == R = -1

\* Dealer.Deactivate(positions...)
DeactivateOk == ~(R # -1 /\ R # 0)

Deactivate(positions) ==
    /\ fault = "none"
    /\ lastOp' = "Deactivate"
    /\ IF DeactivateOk
       THEN /\ Active' = Active \ positions
            /\ lastRet' = TRUE
       ELSE /\ Active' = Active
            /\ lastRet' = FALSE
    /\ UNCHANGED <<TypeDesc, Deck, Runs, Results, RunCount, ST, S, R, E,
                   fault, dealLog>>
    /\ UNCHANGED <<memVars, deckVars, winVars>>

\* a state check that forgets the active positions
ChangeRunsOkNoActive ==
    ~ \/ R # 0
      \/ RunCount # 1
      \/ Len(Runs) # 1
      \/ Len(Streets) <= S

\* the state check of Dealer.ChangeRuns
ChangeRunsOk ==
    ~ \/ R # 0
      \/ RunCount # 1
      \/ Len(Runs) # 1
      \/ Len(Streets) <= S
      \/ ~HasActive

\* one duplicate too few
AppendDupesShort(runs) == Runs \o [k \in 1 .. (runs - 2) |-> Dupe(Runs[1])]

\* the Runs a successful ChangeRuns(runs) leaves: run 0 and runs-1 dupes of it
AppendDupes(runs) == Runs \o [k \in 1 .. (runs - 1) |-> Dupe(Runs[1])]

\* Dealer.ChangeRuns(runs)
ChangeRuns(runs) ==
    /\ fault = "none"
    /\ lastOp' = "ChangeRuns"
    /\ IF ~ChangeRunsOk
       THEN /\ lastRet' = FALSE
            /\ UNCHANGED <<Runs, ST, RunCount, fault>>
       ELSE IF runs - 1 < 0
       THEN \* make([]*Run, runs-1) panics
            /\ fault' = "makeslice"
            /\ UNCHANGED <<Runs, ST, RunCount, lastRet>>
       ELSE /\ Runs' = AppendDupes(runs)
            /\ ST' = S
            /\ RunCount' = runs
            /\ lastRet' = TRUE
            /\ UNCHANGED fault
    /\ UNCHANGED <<TypeDesc, Deck, Active, Results, S, R, E, dealLog>>
    /\ UNCHANGED <<memVars, deckVars, winVars>>

\* a return value telling whether anything is left after this street
NextReturnMore(s, r) == s < Len(Streets) - 1 \/ r < RunCount - 1

\* the value Next returns after it has dealt street s of run r
NextReturn(s, r) == s < Len(Streets) \/ r < RunCount - 1

\* a first switch that starts on the second street
NextStreetSkip(s, r) == IF s = -1 /\ r = -1 THEN 1 ELSE s + 1

\* the street index after the first switch of Next
NextStreet(s, r) == IF s = -1 /\ r = -1 THEN 0 ELSE s + 1

\* a replay that starts on the branch street itself
ReplayStreetAgain == ST

\* the street a later run starts on: d.S, d.R = d.ST+1, d.R+1
ReplayStreet == ST + 1

\* Dealer.Next
DealerNext ==
    /\ fault = "none"
    /\ S < Len(Streets) + MaxOver
    /\ lastOp' = "Next"
    /\ LET n   == Len(Streets)
           s1  == NextStreet(S, R)
           r1  == IF S = -1 /\ R = -1 THEN 0 ELSE R
           rep == n <= s1 /\ r1 < RunCount
           s2  == IF rep THEN ReplayStreet ELSE s1
           r2  == IF rep THEN r1 + 1 ELSE r1
       IN  IF (n <= s1 /\ r1 = RunCount - 1) \/ ~HasActiveAt(s1)
           THEN /\ S' = s1
                /\ R' = r1
                /\ lastRet' = FALSE
                /\ UNCHANGED <<Deck, Runs, fault, dealLog>>
           ELSE IF s2 < 0 \/ n <= s2 \/ r2 < 0 \/ Len(Runs) <= r2
           THEN \* d.Streets[street] or d.Runs[d.R]: index out of range
                /\ S' = s2
                /\ R' = r2
                /\ fault' = "index"
                /\ UNCHANGED <<Deck, Runs, lastRet, dealLog>>
           ELSE LET st == Deal(s2, Runs[r2 + 1], Deck)
                IN  /\ S' = s2
                    /\ R' = r2
                    /\ Runs' = [Runs EXCEPT ![r2 + 1] = st.run]
                    /\ Deck' = st.deck
                    /\ dealLog' = Append(dealLog, << s2, r2 >>)
                    /\ lastRet' = NextReturn(s2, r2)
                    /\ UNCHANGED fault
    /\ UNCHANGED <<TypeDesc, Active, Results, RunCount, ST, E>>
    /\ UNCHANGED <<memVars, deckVars, winVars>>

\* Dealer.NextResult
NextResult ==
    /\ fault = "none"
    /\ lastOp' = "NextResult"
    /\ Results' = ComputeResults
    /\ IF RunCount <= E
       THEN /\ E' = E
            /\ lastRet' = FALSE
       ELSE /\ E' = E + 1
            /\ lastRet' = (E + 1 < RunCount)
    /\ UNCHANGED <<TypeDesc, Deck, Active, Runs, RunCount, ST, S, R,
                   fault, dealLog>>
    /\ UNCHANGED <<memVars, deckVars, winVars>>

\* Dealer.Reset
Reset ==
    /\ fault = "none"
    /\ Deck' = DeckReset(Deck)
    /\ Active' = Positions
    /\ Runs' = << NewRun >>
    /\ Results' = << >>
    /\ RunCount' = 1
    /\ ST' = -1
    /\ S' = -1
    /\ R' = -1
    /\ E' = -1
    /\ lastOp' = "Reset"
    /\ lastRet' = TRUE
    /\ dealLog' = << >>
    /\ UNCHANGED <<TypeDesc, fault>>
    /\ UNCHANGED <<memVars, deckVars, winVars>>

Next ==
    \/ DealerNext
    \/ \E positions \in DeactivateArgs : Deactivate(positions)
    \/ \E runs \in 0 .. MaxRuns : ChangeRuns(runs)
    \/ NextResult
    \/ Reset

Spec == Init /\ [][Next]_vars

\* The dealer driven by a caller that keeps calling Next: Next is an
\* iterator, called again and again while the program runs. A Next that
\* can be called is called in the end; nothing else is promised.
SpecRepeat == Init /\ [][Next]_vars /\ WF_vars(DealerNext)

\* ------------------------------------- a Run and its duplicate in storage
\* a card no run holds yet
NewCard == DeckSize + 1

\* a Run to duplicate
InitDupe ==
    /\ \E desc \in Variants : desc.Double /\ NewDealer(desc)
    /\ \E disc \in {<< >>, << 1 >>}, hi \in {<< >>, << 2, 3 >>},
          lo \in {<< >>, << 4 >>}, dealt \in BOOLEAN, spare \in 0 .. 1 :
          LET pk == [i \in 1 .. Count |->
                        IF dealt THEN << 4 + i >> ELSE << >>]
              r  == DealtRun(disc, hi, lo, pk, spare)
          IN  heap = r.heap /\ orig = r.run
    /\ copy = NilRun
    /\ memLast = "none"
    /\ memOps = 0
    /\ DeckIdle
    /\ WinIdle

\* copy := orig.Dupe()
MemDupe ==
    /\ memLast = "none"
    /\ LET d == HeapDupe(heap, orig)
       IN  heap' = d.heap /\ copy' = d.run
    /\ memLast' = "dupe"
    /\ UNCHANGED <<orig, memOps>>
    /\ UNCHANGED <<dealerVars, deckVars, winVars>>

\* run.f = append(run.f, c), as Deal does, on the run named w
MemAppend(w, f, grow) ==
    /\ memLast # "none"
    /\ memOps < MaxMemOps
    /\ LET run == IF w = "orig" THEN orig ELSE copy
           a   == GoAppend(heap, HeaderOf(heap, run, f), NewCard, grow)
       IN  IF f.part # "Pockets"
           THEN /\ heap' = a.heap
                /\ IF w = "orig"
                   THEN /\ orig' = [orig EXCEPT ![f.part] = a.slice]
                        /\ UNCHANGED copy
                   ELSE /\ copy' = [copy EXCEPT ![f.part] = a.slice]
                        /\ UNCHANGED orig
           ELSE /\ heap' = [a.heap EXCEPT
                               !.hdrs[run.Pockets.ptr][f.pos + 1] = a.slice]
                /\ UNCHANGED <<orig, copy>>
    /\ memLast' = w
    /\ memOps' = memOps + 1
    /\ UNCHANGED <<dealerVars, deckVars, winVars>>

\* run.f[k] = c on the run named w
MemSet(w, f, k) ==
    /\ memLast # "none"
    /\ memOps < MaxMemOps
    /\ LET run == IF w = "orig" THEN orig ELSE copy
           s   == HeaderOf(heap, run, f)
       IN  /\ k < s.len
           /\ heap' = [heap EXCEPT !.cards[s.ptr][k + 1] = NewCard]
    /\ memLast' = w
    /\ memOps' = memOps + 1
    /\ UNCHANGED <<orig, copy>>
    /\ UNCHANGED <<dealerVars, deckVars, winVars>>

NextDupe ==
    \/ MemDupe
    \/ \E w \in {"orig", "copy"}, f \in CardSlices,
          grow \in 0 .. 1 : MemAppend(w, f, grow)
    \/ \E w \in {"orig", "copy"}, f \in CardSlices,
          k \in 0 .. 1 : MemSet(w, f, k)

SpecDupe == InitDupe /\ [][NextDupe]_vars

\* ------------------------------------------------- a Deck used on its own
\* DeckOf(cards...) for any cards
DeckOfCards(cards) == [I |-> 0, L |-> Len(cards), V |-> cards]

\* DeckType.Shoe(count), v the cards of the type
Shoe(count, v) ==
    [I |-> 0, L |-> count * Len(v),
     V |-> [k \in 1 .. (count * Len(v)) |-> v[((k - 1) % Len(v)) + 1]]]

\* the decks drawn from: DeckLen distinct cards, and a shoe of two decks
NewDecks ==
    { DeckOfCards([k \in 1 .. DeckLen |-> k]),
      Shoe(2, [k \in 1 .. (DeckLen \div 2) |-> k]) }

\* Deck.Empty
Empty(d) == d.L <= d.I

\* Deck.Remaining
Remaining(d) == IF 0 <= d.L - d.I THEN d.L - d.I ELSE 0

\* Deck.Draw reads d.V[d.I] past the end of V (index out of range)
DrawFaults(d, count) ==
    /\ count >= 0
    /\ d.I < Min2(d.I + count, d.L)
    /\ Len(d.V) < Min2(d.I + count, d.L)

\* the cards the loop of Draw appends, reading V no further than its end
DrawRead(d, count) ==
    IF count < 0 THEN << >>
    ELSE SubSeq(d.V, d.I + 1, Min2(Min2(d.I + count, d.L), Len(d.V)))

\* a shuffler that loses a card: the last card is written over the first
ShuffleLossy(v) == { [v EXCEPT ![1] = v[Len(v)]] }

\* shuffler.Shuffle(len(d.V), swap): the swaps of one pass put V in any order
ShufflePass(v) ==
    { [k \in 1 .. Len(v) |-> v[p[k]]] : p \in Permutations(1 .. Len(v)) }

\* for range shuffles { ... }: the orders V can be left in
RECURSIVE Shuffled(_, _)
Shuffled(v, shuffles) ==
    IF shuffles <= 0 THEN {v}
    ELSE UNION { ShufflePass(w) : w \in Shuffled(v, shuffles - 1) }

InitDeck ==
    /\ \E desc \in Variants : desc.Streets = << >> /\ NewDealer(desc)
    /\ heap = EmptyHeap
    /\ orig = NilRun
    /\ copy = NilRun
    /\ memLast = "none"
    /\ memOps = 0
    /\ dk \in NewDecks
    /\ drawn = << >>
    /\ dkMid = "steady"
    /\ dkFault = "none"
    /\ WinIdle

\* Deck.Draw(count)
DeckDraw(count) ==
    /\ dkFault = "none"
    /\ IF DrawFaults(dk, count)
       THEN \* the loop stops at d.V[len(d.V)] and nothing is returned
            /\ dk' = [dk EXCEPT !.I = Max2(dk.I, Len(dk.V))]
            /\ dkFault' = "index"
            /\ drawn' = drawn \o DrawRead(dk, count)
       ELSE /\ dk' = Draw(dk, count)
            /\ drawn' = drawn \o DrawCards(dk, count)
            /\ UNCHANGED dkFault
    /\ UNCHANGED dkMid
    /\ UNCHANGED <<dealerVars, memVars, winVars>>

\* Deck.Reset
DeckResetCall ==
    /\ dkFault = "none"
    /\ dk' = DeckReset(dk)
    /\ drawn' = << >>
    /\ dkMid' = "steady"
    /\ UNCHANGED dkFault
    /\ UNCHANGED <<dealerVars, memVars, winVars>>

\* Deck.Shuffle(shuffler, shuffles)
DeckShuffle(shuffles) ==
    /\ dkFault = "none"
    /\ \E v \in Shuffled(dk.V, shuffles) : dk' = [dk EXCEPT !.V = v]
    /\ dkMid' = IF dk.I > 0 /\ dkMid = "steady" /\ shuffles > 0
                THEN "shuffled" ELSE dkMid
    /\ UNCHANGED <<drawn, dkFault>>
    /\ UNCHANGED <<dealerVars, memVars, winVars>>

\* Deck.Limit(limit)
DeckLimit(limit) ==
    /\ dkFault = "none"
    /\ dk' = [dk EXCEPT !.L = limit]
    /\ dkMid' = IF dk.I > 0 THEN "limited" ELSE dkMid
    /\ UNCHANGED <<drawn, dkFault>>
    /\ UNCHANGED <<dealerVars, memVars, winVars>>

NextDeck ==
    \/ \E count \in -1 .. MaxDraw : DeckDraw(count)
    \/ DeckResetCall
    \/ \E shuffles \in 0 .. MaxShuffles : DeckShuffle(shuffles)
    \/ \E limit \in -1 .. (DeckLen + 1) : DeckLimit(limit)

SpecDeck == InitDeck /\ [][NextDeck]_vars

\* ------------------------------------------------- the Wins of a Result
\* a shuffled deck: the cards 1..DeckSize taken every stride-th, cut at o
DeckCut(stride, o) ==
    [I |-> 0, L |-> DeckSize,
     V |-> [k \in 1 .. DeckSize |-> ((k * stride + o) % DeckSize) + 1]]

ShuffledDecks == { DeckCut(stride, o) : stride \in {1, 3}, o \in 0 .. MaxCut }

\* evaluations handed to NewWin: none, one holding no hand, one of rank 0,
\* one ranked for high only, one ranked for both
SampleEvals ==
    { NilEval, EvalOf,
      [nil |-> FALSE, HiRank |-> 0, LoRank |-> 0],
      [nil |-> FALSE, HiRank |-> 1, LoRank |-> Invalid],
      [nil |-> FALSE, HiRank |-> 2, LoRank |-> 1] }

\* the Wins built with NewWin directly
SampleWins ==
    { NewWin(evs, order, pivot, low, scoop) :
        evs \in {<< >>} \cup {[k \in {0} |-> e] : e \in SampleEvals},
        order \in {<< >>, << 0 >>},
        pivot \in 0 .. MaxPivot,
        low \in BOOLEAN, scoop \in BOOLEAN }

\* a dealer of a shuffled deck after its first Next and the deactivation
\* of some positions, or a Win built by hand
InitWin ==
    /\ \E desc \in Variants, d \in ShuffledDecks, act \in SUBSET Positions,
          w \in SampleWins \cup {NilWin} :
          /\ Len(desc.Streets) >= 1
          /\ w # NilWin => (act = Positions /\ d = DeckCut(1, 0)
                               /\ desc.Max = 1)
          /\ TypeDesc = desc
          /\ Deck = Deal(0, NewRun, d).deck
          /\ Runs = << Deal(0, NewRun, d).run >>
          /\ Active = act
          /\ lastOp = IF act = Positions THEN "Next" ELSE "Deactivate"
          /\ win = w
    /\ Results = << >>
    /\ RunCount = 1
    /\ ST = -1
    /\ S = 0
    /\ R = 0
    /\ E = -1
    /\ lastRet = TRUE
    /\ fault = "none"
    /\ dealLog = << << 0, 0 >> >>
    /\ heap = EmptyHeap
    /\ orig = NilRun
    /\ copy = NilRun
    /\ memLast = "none"
    /\ memOps = 0
    /\ DeckIdle
    /\ hiWin = NilWin
    /\ loWin = NilWin
    /\ winOp = "none"
    /\ winSide = "none"
    /\ verb = ""
    /\ invalid = FALSE
    /\ winFault = "none"

\* _, res := d.Result(); hi, lo := res.Win(), in the loop over NextResult
ResultWin ==
    /\ fault = "none"
    /\ winFault = "none"
    /\ lastOp = "NextResult"
    /\ lastRet
    /\ winOp' = "Win"
    /\ IF ResultFaults
       THEN \* d.Results[d.E]: index out of range
            /\ winFault' = "index"
            /\ UNCHANGED <<hiWin, loWin>>
       ELSE LET res == Results[ResultIndex + 1]
            IN  IF WinFaults(res)
                THEN \* res.Evals[res.HiOrder[0]]: index out of range
                     /\ winFault' = "index"
                     /\ UNCHANGED <<hiWin, loWin>>
                ELSE IF res.Evals[res.HiOrder[1]].nil
                THEN \* .Type of no evaluation: nil pointer dereference
                     /\ winFault' = "nil"
                     /\ UNCHANGED <<hiWin, loWin>>
                ELSE /\ hiWin' = HiWinOf(res)
                     /\ loWin' = LoWinOf(res)
                     /\ UNCHANGED winFault
    /\ UNCHANGED <<win, winSide, verb, invalid>>
    /\ UNCHANGED <<dealerVars, memVars, deckVars>>

WinSides == {"hi", "lo", "win"}

\* the Win a caller holds: hi and lo of the last Result.Win, or win
WinAt(side) ==
    IF side = "hi" THEN hiWin ELSE IF side = "lo" THEN loWin ELSE win

\* hi and lo are there once Result.Win has returned
WinHeld(side) == IF side = "win" THEN ~win.nil ELSE ~hiWin.nil

\* w.Verb()
WinVerb(side) ==
    /\ winFault = "none"
    /\ WinHeld(side)
    /\ winOp' = "Verb"
    /\ winSide' = side
    /\ IF WinAt(side).nil
       THEN \* win.Scoop of a nil Win: nil pointer dereference
            /\ winFault' = "nil"
            /\ UNCHANGED verb
       ELSE /\ verb' = Verb(WinAt(side))
            /\ UNCHANGED winFault
    /\ UNCHANGED <<hiWin, loWin, win, invalid>>
    /\ UNCHANGED <<dealerVars, memVars, deckVars>>

\* w.Invalid()
WinInvalidCall(side) ==
    /\ winFault = "none"
    /\ WinHeld(side)
    /\ winOp' = "Invalid"
    /\ winSide' = side
    /\ IF InvalidFaults(WinAt(side))
       THEN /\ winFault' = "index"
            /\ UNCHANGED invalid
       ELSE /\ invalid' = WinInvalid(WinAt(side))
            /\ UNCHANGED winFault
    /\ UNCHANGED <<hiWin, loWin, win, verb>>
    /\ UNCHANGED <<dealerVars, memVars, deckVars>>

NextWin ==
    \/ NextResult
    \/ ResultWin
    \/ \E side \in WinSides : WinVerb(side)
    \/ \E side \in WinSides : WinInvalidCall(side)

SpecWin == InitWin /\ [][NextWin]_vars

\* ================================================================ claims
\* cards a street hands to every pocket, to each board and to the discards
RECURSIVE PocketThrough(_)
PocketThrough(s) ==
    IF s < 0 THEN 0 ELSE Streets[s + 1].Pocket + PocketThrough(s - 1)

RECURSIVE BoardThrough(_)
BoardThrough(s) ==
    IF s < 0 THEN 0 ELSE Streets[s + 1].Board + BoardThrough(s - 1)

DiscardOn(desc) ==
    (IF 0 < desc.Pocket THEN desc.PocketDiscard ELSE 0)
    + (IF 0 < desc.Board
       THEN (IF TypeDesc.Double THEN 2 ELSE 1) * desc.BoardDiscard
       ELSE 0)

RECURSIVE DiscardThrough(_)
DiscardThrough(s) ==
    IF s < 0 THEN 0 ELSE DiscardOn(Streets[s + 1]) + DiscardThrough(s - 1)

Prefix(seq, k) == SubSeq(seq, 1, Min2(k, Len(seq)))

Rest(seq, k) == SubSeq(seq, Min2(k, Len(seq)) + 1, Len(seq))

SamePrefix(a, b, k) == Prefix(a, k) = Prefix(b, k)

Range(seq) == {seq[k] : k \in 1 .. Len(seq)}

\* run shares with run 0 the pockets and boards dealt through street ST
SharesDealt(run) ==
    /\ \A i \in Positions :
          SamePrefix(run.Pockets[i], Runs[1].Pockets[i], PocketThrough(ST))
    /\ SamePrefix(run.Hi, Runs[1].Hi, BoardThrough(ST))
    /\ SamePrefix(run.Lo, Runs[1].Lo, BoardThrough(ST))

\* run shares with run 0 the discards made through street ST
SharesDiscard(run) ==
    SamePrefix(run.Discard, Runs[1].Discard, DiscardThrough(ST))

\* run holds nothing dealt after street ST
OnlyDealtThroughST(run) ==
    /\ \A i \in Positions : Len(run.Pockets[i]) <= PocketThrough(ST)
    /\ Len(run.Hi) <= BoardThrough(ST)
    /\ Len(run.Lo) <= BoardThrough(ST)

\* C1 as stated: all runs hold the same pockets, the same discard piles and
\* the same boards for everything dealt up to and including street ST.
C1_AllPartsShared ==
    RunCount > 1 =>
        \A k \in 1 .. Len(Runs) :
            SharesDealt(Runs[k]) /\ SharesDiscard(Runs[k])

\* C1 amended: all runs hold the same pockets and boards for everything
\* dealt through street ST and differ only in what is dealt after ST; the
\* discard pile is not shared: a duplicate starts with an empty one, and a
\* run Next has not reached yet holds exactly the cards dealt through ST.
C1_PocketsBoardsShared ==
    RunCount > 1 =>
        \A k \in 1 .. Len(Runs) :
            /\ SharesDealt(Runs[k])
            /\ k - 1 > R =>
                  /\ Runs[k].Discard = << >>
                  /\ OnlyDealtThroughST(Runs[k])

\* C1 witness: a later run has been dealt past a branch street with pocket
\* and board cards, and its board differs from run 0's after the branch
C1_Witness ==
    /\ RunCount > 1
    /\ R >= 1
    /\ BoardThrough(ST) > 0
    /\ Len(Runs[1].Discard) > 0
    /\ Len(Runs[R + 1].Hi) > BoardThrough(ST)
    /\ Runs[R + 1].Hi # Runs[1].Hi

\* C3 as stated: Deactivate returns false whenever RunCount > 1.
C3_RejectedOnceSplit ==
    (lastOp = "Deactivate" /\ RunCount > 1) => ~lastRet

\* C3 amended: after a successful ChangeRuns(n), n >= 2, Deactivate returns
\* false and leaves Active unchanged once Next has moved to a later run
\* (R >= 1); while run 0 is the current run (R = 0) it still returns true.
C3_RejectedPastRunZero ==
    [][ (lastOp' = "Deactivate" /\ RunCount > 1) =>
            IF R >= 1
            THEN ~lastRet' /\ Active' = Active
            ELSE lastRet' ]_vars

\* C3 witness: a Deactivate refused on a later run of a split hand
C3_Witness ==
    /\ lastOp = "Deactivate"
    /\ RunCount > 1
    /\ R >= 1
    /\ ~lastRet
    /\ Cardinality(Active) >= 2

\* C4 as stated: a Next never appends a card to the pocket of a position
\* that is not active, in any run.
C4_InactiveNotDealt ==
    [][ lastOp' = "Next" =>
            \A k \in 1 .. Len(Runs) :
                \A i \in Positions \ Active :
                    Runs'[k].Pockets[i] = Runs[k].Pockets[i] ]_vars

\* the pockets of a run, position after position
RECURSIVE PocketCards(_, _)
PocketCards(run, i) ==
    IF i >= Count THEN << >>
    ELSE run.Pockets[i] \o PocketCards(run, i + 1)

\* every card a run holds
RunCards(run) == run.Discard \o PocketCards(run, 0) \o run.Hi \o run.Lo

NoRepeat(seq) == Cardinality(Range(seq)) = Len(seq)

\* the board cards of a run dealt after street ST
BoardAfterST(run) ==
    Range(Rest(run.Hi, BoardThrough(ST)))
        \cup Range(Rest(run.Lo, BoardThrough(ST)))

\* every card of run k dealt after street ST
CardsAfterST(k) ==
    BoardAfterST(Runs[k])
        \cup UNION {Range(Rest(Runs[k].Pockets[i], PocketThrough(ST))) :
                        i \in Positions}
        \cup (IF k = 1
              THEN Range(Rest(Runs[k].Discard, DiscardThrough(ST)))
              ELSE Range(Runs[k].Discard))

\* Next has just reported that nothing is left to deal
Exhausted == lastOp = "Next" /\ ~lastRet /\ fault = "none"

\* ... after the last street of the last run, with every position active
\* and cards left in the deck
DealtOut ==
    /\ Exhausted
    /\ S >= Len(Streets)
    /\ R = RunCount - 1
    /\ Active = Positions
    /\ Deck.I < Deck.L

\* C5 as stated: once every run is dealt out after a ChangeRuns, all runs
\* have identical pockets and pre-branch boards, no run holds a card twice
\* and the post-branch boards of different runs share no card.
C5_IdenticalPockets ==
    (RunCount > 1 /\ DealtOut) =>
        \A k \in 1 .. Len(Runs) :
            /\ Runs[k].Pockets = Runs[1].Pockets
            /\ SamePrefix(Runs[k].Hi, Runs[1].Hi, BoardThrough(ST))
            /\ SamePrefix(Runs[k].Lo, Runs[1].Lo, BoardThrough(ST))
            /\ NoRepeat(RunCards(Runs[k]))
            /\ \A j \in 1 .. Len(Runs) :
                  j # k => BoardAfterST(Runs[j]) \cap BoardAfterST(Runs[k]) = {}

\* C5 amended: once Next has returned false after a ChangeRuns, all runs
\* have identical pocket and board cards for the streets through ST (and
\* identical pockets outright when no street after ST deals pocket cards),
\* no run holds a card twice, and the cards dealt after ST to different
\* runs are disjoint.
C5_IdenticalThroughBranch ==
    (RunCount > 1 /\ Exhausted) =>
        \A k \in 1 .. Len(Runs) :
            /\ SharesDealt(Runs[k])
            /\ PocketThrough(Len(Streets) - 1) = PocketThrough(ST) =>
                  Runs[k].Pockets = Runs[1].Pockets
            /\ NoRepeat(RunCards(Runs[k]))
            /\ \A j \in 1 .. Len(Runs) :
                  j # k => CardsAfterST(j) \cap CardsAfterST(k) = {}

\* C5 witness: three runs dealt to the end with cards left for each
C5_Witness ==
    /\ RunCount = 3
    /\ Exhausted
    /\ R = 2
    /\ \A k \in 1 .. 3 : Len(Runs[k].Hi) = BoardThrough(Len(Streets) - 1)
    /\ BoardAfterST(Runs[3]) # {}
    /\ BoardThrough(ST) > 0
    /\ Deck.I < Deck.L

\* C6 as stated, for a variant of one street or more: RunCount >= 1,
\* len(Runs) = RunCount, 0 <= R < RunCount once started, and
\* -1 <= S < number of streets.
C6_StreetBelowEnd ==
    Len(Streets) > 0 =>
        /\ RunCount >= 1
        /\ Len(Runs) = RunCount
        /\ R # -1 => (0 <= R /\ R < RunCount)
        /\ -1 <= S
        /\ S < Len(Streets)

\* C6 amended: RunCount >= 1, len(Runs) = RunCount, 0 <= R < RunCount once
\* started, and S >= -1; S stays below the number of streets until Next
\* halts (last run finished, or too few active positions) or fails, and a
\* halting Next still increments S, so S reaches and passes that number.
C6_Counters ==
    /\ RunCount >= 1
    /\ Len(Runs) = RunCount
    /\ R # -1 => (0 <= R /\ R < RunCount)
    /\ R = -1 => S = -1
    /\ -1 <= S
    /\ S >= Len(Streets) =>
          \/ R = RunCount - 1
          \/ ~(TypeDesc.Max = 1 \/ Cardinality(Active) > 1)
          \/ fault = "index"

\* C6 witness: a split hand whose street index has passed the last street
C6_Witness ==
    /\ RunCount > 1
    /\ R = RunCount - 1
    /\ Len(Streets) > 0
    /\ S > Len(Streets)

\* every card the streets 0..s take from the deck
TotalThrough(s) ==
    Count * PocketThrough(s)
    + (IF TypeDesc.Double THEN 2 ELSE 1) * BoardThrough(s)
    + DiscardThrough(s)

\* C7: with one run, every position active and n >= 1 streets, the Next
\* calls so far have dealt streets 0, 1, ... in order, each once, into run
\* 0; the call after street n-1 returns false and deals nothing.
C7_StreetsInOrder ==
    (/\ RunCount = 1
     /\ Active = Positions
     /\ Len(Streets) >= 1
     /\ S >= 0
     /\ fault = "none") =>
        LET last == Min2(S, Len(Streets) - 1)
        IN  /\ dealLog = [k \in 1 .. (last + 1) |-> << k - 1, 0 >>]
            /\ Deck.I = Min2(Deck.L, TotalThrough(last))
            /\ Len(RunCards(Runs[1])) = Deck.I
            /\ lastOp = "Next" => (lastRet <=> S < Len(Streets))

\* C7 witness: the call after the third of three streets returned false
C7_Witness ==
    /\ RunCount = 1
    /\ Active = Positions
    /\ Len(Streets) = 3
    /\ S = 3
    /\ lastOp = "Next"
    /\ ~lastRet
    /\ Len(dealLog) = 3

\* C8 as stated: Next returns true only when a street or a run remains to
\* be dealt after the street it has just dealt.
C8_TrueOnlyIfMoreRemains ==
    (lastOp = "Next" /\ lastRet /\ fault = "none") =>
        (S < Len(Streets) - 1 \/ R < RunCount - 1)

\* C8 amended: Next returns true exactly when this call has dealt a street
\* (also for the last street of the last run) and false exactly when it
\* has dealt nothing: the street index has passed the last street on the
\* last run, or too few positions are active.
C8_TrueIffDealt ==
    [][ (lastOp' = "Next" /\ fault' = "none") =>
            /\ lastRet' <=> (dealLog' # dealLog)
            /\ lastRet' <=> (/\ S' < Len(Streets)
                             /\ (TypeDesc.Max = 1 \/ Cardinality(Active) > 1)) ]_vars

\* C8 witness: Next returned true for the last street of the last run
C8_Witness ==
    /\ lastOp = "Next"
    /\ lastRet
    /\ RunCount > 1
    /\ S = Len(Streets) - 1
    /\ R = RunCount - 1

\* the state ChangeRuns accepts, as C9 lists it
C9_Accepts ==
    /\ R = 0
    /\ RunCount = 1
    /\ Len(Runs) = 1
    /\ 0 <= S
    /\ S < Len(Streets)
    /\ (TypeDesc.Max = 1 \/ Cardinality(Active) >= 2)

\* C9: ChangeRuns(n) succeeds exactly in the accepting state, where it
\* leaves run 0 and n-1 runs with run 0's pockets and boards, ST = S and
\* RunCount = n; in every other state it returns false and changes nothing.
C9_ChangeRuns ==
    [][ \A runs \in 0 .. MaxRuns : (ChangeRuns(runs) /\ fault' = "none") =>
            IF C9_Accepts
            THEN /\ lastRet'
                 /\ RunCount' = runs
                 /\ Len(Runs') = runs
                 /\ Runs'[1] = Runs[1]
                 /\ \A k \in 2 .. runs :
                       /\ Runs'[k].Pockets = Runs[1].Pockets
                       /\ Runs'[k].Hi = Runs[1].Hi
                       /\ Runs'[k].Lo = Runs[1].Lo
                 /\ ST' = S
                 /\ UNCHANGED <<S, R, Active, Deck, Results, E>>
            ELSE /\ ~lastRet'
                 /\ UNCHANGED <<Runs, RunCount, ST, S, R, Active, Deck,
                                Results, E>> ]_vars

\* C9 witness: a ChangeRuns(3) accepted on the second street
C9_Witness ==
    /\ lastOp = "ChangeRuns"
    /\ lastRet
    /\ RunCount = 3
    /\ ST = 1
    /\ S = 1
    /\ Len(Runs[3].Hi) > 0

\* C10: Deactivate returns false and leaves Active as it is exactly when R
\* is neither -1 nor 0; otherwise it returns true and removes exactly the
\* named positions; nothing else changes and Active stays within
\* 0..Count-1.
C10_Deactivate ==
    [][ \A positions \in DeactivateArgs : Deactivate(positions) =>
            /\ IF R # -1 /\ R # 0
               THEN ~lastRet' /\ Active' = Active
               ELSE lastRet' /\ Active' = Active \ positions
            /\ Active' \subseteq Active
            /\ Active' \subseteq Positions
            /\ UNCHANGED <<Deck, Runs, Results, RunCount, ST, S, R, E>> ]_vars

\* C10 witness: a Deactivate accepted on run 0 that removed a position
C10_Witness ==
    /\ lastOp = "Deactivate"
    /\ lastRet
    /\ R = 0
    /\ Active = Positions \ {0}

\* C11 as stated: whenever NextResult returns true, Results is computed and
\* has an entry at the cursor E (0 <= E < length of Results), so that
\* Result() yields it.
C11_TrueMeansResult ==
    (lastOp = "NextResult" /\ lastRet) =>
        /\ Results # << >>
        /\ 0 <= E
        /\ E < Len(Results)
        /\ ~ResultFaults

\* C12 as stated: once computed, Results is changed by no operation but
\* Reset, and its length equals RunCount in every state in which it is
\* computed.
C12_ResultsPerRun ==
    [][ /\ (Results # << >> /\ lastOp' # "Reset") => Results' = Results
        /\ Results' # << >> => Len(Results') = RunCount' ]_vars

\* the indices of an order are positions holding an entry of evs
ValidOrder(order, evs) ==
    \A k \in 1 .. Len(order) : order[k] \in DOMAIN evs

\* C13 as stated: every Result of NextResult has one Evals entry per
\* position 0..Count-1, HiOrder is a permutation of the positions holding
\* an evaluation, and every index of HiOrder and LoOrder is a valid index
\* into Evals.
C13_OrdersIndexEvals ==
    \A k \in 1 .. Len(Results) :
        LET res == Results[k]
        IN  /\ DOMAIN res.Evals = Positions
            /\ Len(res.HiOrder) = Cardinality(Range(res.HiOrder))
            /\ ValidOrder(res.HiOrder, res.Evals)
            /\ ValidOrder(res.LoOrder, res.Evals)

\* v and w hold the same cards, each as many times
SameCards(v, w) ==
    /\ Len(v) = Len(w)
    /\ \A c \in Range(v) \cup Range(w) :
          Cardinality({k \in 1 .. Len(v) : v[k] = c})
              = Cardinality({k \in 1 .. Len(w) : w[k] = c})

\* C14: for a deck with 0 <= L <= len(V) whose limit is left alone while it
\* is drawn from, the Draw calls made from cursor 0 until Empty return L
\* cards in total, also when it is shuffled between draws; with no shuffle
\* in mid-draw they are V[0..L-1], each once and in sequence order; and
\* after any number of Shuffle passes V still holds the cards of the new
\* deck, none lost and none repeated.
C14_DrawsEveryCard ==
    (/\ dkFault = "none"
     /\ Empty(dk)
     /\ 0 <= dk.L
     /\ dk.L <= Len(dk.V)
     /\ dkMid # "limited") =>
        /\ Len(drawn) = dk.L
        /\ dkMid = "steady" => drawn = SubSeq(dk.V, 1, dk.L)
        /\ \E d \in NewDecks : SameCards(dk.V, d.V)

\* C14 witness: a shuffled deck limited to all cards but the last has been
\* drawn empty
C14_Witness ==
    /\ Empty(dk)
    /\ dkMid = "steady"
    /\ Len(dk.V) = DeckLen
    /\ dk.L = DeckLen - 1
    /\ dk.V[1] = DeckLen
    /\ dk.I = dk.L
    /\ drawn = SubSeq(dk.V, 1, DeckLen - 1)

\* C15 as stated: after any sequence of Draw, Reset, Shuffle and Limit
\* calls 0 <= I <= L <= len(V) holds and no call faults; Draw(k) returns
\* min(k, Remaining()) cards for k >= 0 and none for k < 0, and advances
\* the cursor by exactly the number of cards it returns.
C15_CursorWithinLimit ==
    [][ /\ 0 <= dk'.I
        /\ dk'.I <= dk'.L
        /\ dk'.L <= Len(dk'.V)
        /\ dkFault' = "none"
        /\ \A count \in -1 .. MaxDraw : DeckDraw(count) =>
              LET got == Len(drawn') - Len(drawn)
              IN  /\ got = IF count < 0 THEN 0
                           ELSE Min2(count, Remaining(dk))
                  /\ dk'.I = dk.I + got ]_vars

\* run 0 and the deck after the streets 0..s are dealt from deck d
RECURSIVE DealtFrom(_, _)
DealtFrom(d, s) ==
    IF s < 0 THEN [run |-> NewRun, deck |-> d]
    ELSE LET p == DealtFrom(d, s - 1) IN Deal(s, p.run, p.deck)

\* the number of streets dealt into run 0
DealsOfRunZero(log) == Cardinality({k \in 1 .. Len(log) : log[k][2] = 0})

\* C16: Dealer.Reset restores the not-started state (S = R = ST = E = -1,
\* RunCount = 1, one empty run, no Results, every position active) and
\* sets the deck cursor to 0; no operation changes the order or the limit
\* of the deck; and dealing again from the rewound deck gives run 0 the
\* very cards it held before the Reset, as in every state run 0 holds what
\* its streets take from the start of the deck.
C16_ResetRewinds ==
    [][ /\ Deck'.V = Deck.V
        /\ Deck'.L = Deck.L
        /\ lastOp' = "Reset" =>
              /\ S' = -1 /\ R' = -1 /\ ST' = -1 /\ E' = -1
              /\ RunCount' = 1
              /\ Runs' = << NewRun >>
              /\ Results' = << >>
              /\ Active' = Positions
              /\ Deck'.I = 0
              /\ DealtFrom(Deck', DealsOfRunZero(dealLog) - 1).run = Runs[1]
              /\ RunCount = 1 =>
                    DealtFrom(Deck', DealsOfRunZero(dealLog) - 1).deck = Deck
        /\ fault' = "none" =>
              Runs'[1] = DealtFrom(DeckReset(Deck'),
                                   DealsOfRunZero(dealLog') - 1).run ]_vars

\* C16 witness: a Reset has put the dealer back to not started
C16_Witness ==
    /\ lastOp = "Reset"
    /\ S = -1
    /\ Deck.I = 0
    /\ Runs = << NewRun >>
    /\ Active = Positions

\* the Win a method was last called on
Queried == WinAt(winSide)

\* the head of the order of w has no usable evaluation
NoUsableHead(w) ==
    \/ w.Pivot = 0
    \/ w.Order = << >>
    \/ DOMAIN w.Evals = {}
    \/ LET d == DescOf(w.Evals[w.Order[1]], w.Low)
       IN  d.nil \/ d.Rank = 0 \/ d.Rank = Invalid

\* C17 as stated: Win.Invalid returns true exactly when Pivot is 0, or
\* Order or Evals is empty, or the description of the first-ordered
\* evaluation is missing or has rank 0 or the Invalid rank; false otherwise.
C17_InvalidIffNoHead ==
    (winOp = "Invalid" /\ winFault = "none" /\ ~Queried.nil) =>
        (invalid <=> NoUsableHead(Queried))

\* C18 as stated: for a Result of a low-enabled variant with LoPivot = 0,
\* Result.Win yields a Hi Win whose Scoop flag is true and a Lo Win whose
\* Verb is "none".
C18_LowSideVerbNone ==
    [][ (/\ ResultWin
         /\ winFault' = "none"
         /\ TypeDesc.Low
         /\ Results[ResultIndex + 1].LoPivot = 0) =>
            /\ hiWin'.Scoop
            /\ ~loWin'.nil
            /\ Verb(loWin') = "none" ]_vars

\* C18 amended: for a Result of a low-enabled variant with LoPivot = 0,
\* Result.Win yields a Hi Win whose Scoop flag is true, whose Verb is
\* "scoops", and no Lo Win (nil), so there is no Win to ask a verb of and
\* Verb on it fails; in general the Lo Win is absent exactly when LoOrder
\* is absent or LoPivot = 0, the Hi Win's Scoop flag is true exactly when
\* the variant is low-enabled and the Lo Win is absent, and a Lo Win that
\* is produced never has the verb "none".
C18_ScoopWhenNoLowWin ==
    [][ /\ (ResultWin /\ winFault' = "none") =>
              LET res == Results[ResultIndex + 1]
              IN  /\ loWin'.nil <=> (res.LoOrder = << >> \/ res.LoPivot = 0)
                  /\ hiWin'.Scoop <=> (TypeDesc.Low /\ loWin'.nil)
                  /\ (TypeDesc.Low /\ res.LoPivot = 0) =>
                        /\ hiWin'.Scoop
                        /\ loWin' = NilWin
                        /\ Verb(hiWin') = "scoops"
                  /\ ~loWin'.nil =>
                        /\ loWin' = NewWin(res.Evals, res.LoOrder,
                                           res.LoPivot, TRUE, FALSE)
                        /\ Verb(loWin') # "none"
                  /\ hiWin'.Order = res.HiOrder
                  /\ hiWin'.Pivot = res.HiPivot
        /\ (WinVerb("lo") /\ loWin.nil) => winFault' = "nil" ]_vars

\* C18 witness: two positions of a low-enabled variant, neither qualifying
\* for low: the Hi Win scoops and there is no Lo Win
C18_Witness ==
    /\ winOp = "Win"
    /\ winFault = "none"
    /\ TypeDesc.Low
    /\ Cardinality(Active) >= 2
    /\ Results[ResultIndex + 1].LoPivot = 0
    /\ Results[ResultIndex + 1].LoOrder # << >>
    /\ hiWin.Scoop
    /\ loWin.nil

\* the cards at the deck positions a+1 .. a+n (Go: V[a], ..., V[a+n-1])
CardsAt(d, a, n) == SubSeq(d.V, a + 1, a + n)

\* the cards a street takes with no exhaustion: pocket burn, pocket
\* rounds, board burn, board, second burn, second board
StreetTakes(desc) ==
    LET dbl == IF TypeDesc.Double THEN 2 ELSE 1
    IN  (IF 0 < desc.Pocket
         THEN desc.PocketDiscard + desc.Pocket * Count ELSE 0)
        + (IF 0 < desc.Board
           THEN dbl * (desc.BoardDiscard + desc.Board) ELSE 0)

\* C19: a Next that deals street s into run r takes consecutive deck cards
\* in this order: PocketDiscard cards to the discards (only if the street
\* deals pockets), then Pocket rounds of one card to every position
\* 0..Count-1 in ascending order, then (only if the street deals board
\* cards) BoardDiscard cards to the discards and Board cards to Hi and, in
\* a double-board variant, BoardDiscard more to the discards and Board
\* cards to Lo; the cursor advances by the number of cards appended to the
\* run, Hi and Lo get different cards, and no other run changes.
C19_DealOrder ==
    [][ (lastOp' = "Next" /\ dealLog' # dealLog) =>
            LET s    == dealLog'[Len(dealLog')][1]
                r    == dealLog'[Len(dealLog')][2]
                desc == Streets[s + 1]
                old  == Runs[r + 1]
                new  == Runs'[r + 1]
                pkt  == 0 < desc.Pocket
                brd  == 0 < desc.Board
                pd   == IF pkt THEN desc.PocketDiscard ELSE 0
                pk   == IF pkt THEN desc.Pocket ELSE 0
                bd   == IF brd THEN desc.BoardDiscard ELSE 0
                bb   == IF brd THEN desc.Board ELSE 0
                i0   == Deck.I
                b0   == i0 + pd + pk * Count
                l0   == b0 + bd + bb
            IN  /\ S' = s /\ R' = r
                /\ \A k \in 1 .. Len(Runs) : k # r + 1 => Runs'[k] = Runs[k]
                /\ Deck'.I - Deck.I
                      = Len(RunCards(new)) - Len(RunCards(old))
                /\ Deck.I + StreetTakes(desc) <= Deck.L =>
                      /\ Deck'.I = Deck.I + StreetTakes(desc)
                      /\ new.Discard =
                            old.Discard \o CardsAt(Deck, i0, pd)
                                \o CardsAt(Deck, b0, bd)
                                \o (IF TypeDesc.Double
                                    THEN CardsAt(Deck, l0, bd) ELSE << >>)
                      /\ \A i \in Positions :
                            new.Pockets[i] =
                                old.Pockets[i]
                                    \o [j \in 1 .. pk |->
                                          Deck.V[i0 + pd + (j - 1) * Count
                                                     + i + 1]]
                      /\ new.Hi = old.Hi \o CardsAt(Deck, b0 + bd, bb)
                      /\ new.Lo = old.Lo
                                    \o (IF TypeDesc.Double
                                        THEN CardsAt(Deck, l0 + bd, bb)
                                        ELSE << >>)
                      /\ Range(Rest(new.Hi, Len(old.Hi)))
                            \cap Range(Rest(new.Lo, Len(old.Lo))) = {} ]_vars

\* C19 witness: the board street of a double-board variant dealt into run
\* 0: a burn and a Hi card, then a second burn and a Lo card
C19_Witness ==
    /\ lastOp = "Next"
    /\ TypeDesc.Double
    /\ R = 0
    /\ S = 1
    /\ Runs[1].Discard = << Count + 1, Count + 3 >>
    /\ Runs[1].Hi = << Count + 2 >>
    /\ Runs[1].Lo = << Count + 4 >>
    /\ Deck.I = Count + 4

\* the streets Next has dealt into run k when the dealer is on street s of
\* run r: from street 0 (run 0) or ST+1 (a later run) through the last
\* street, or through s for the current run
StreetsOfRun(k, s, r) ==
    LET from == IF k = 0 THEN 0 ELSE ST + 1
        to   == IF k = r THEN Min2(s, Len(Streets) - 1)
                ELSE Len(Streets) - 1
    IN  [j \in 1 .. (to - from + 1) |-> << from + j - 1, k >>]

RECURSIVE LogThrough(_, _, _)
LogThrough(k, s, r) ==
    IF k < 0 THEN << >>
    ELSE LogThrough(k - 1, s, r) \o StreetsOfRun(k, s, r)

\* enough positions are active for Next to deal
EnoughActive == TypeDesc.Max = 1 \/ Cardinality(Active) >= 2

\* C20: after a successful ChangeRuns(n) at street ST, while enough
\* positions stay active, the Next calls have dealt run 0 through its last
\* street and then, for each run r = 1, 2, ... in increasing order, the
\* streets ST+1, ..., last, each once and in street order; a Next changes
\* the current run only, R never decreases, and Next returns false only
\* when run n-1 has received its last street.
C20_RunsReplayed ==
    [][ (ST' >= 0 /\ EnoughActive' /\ lastOp' # "Reset") =>
            /\ dealLog' = LogThrough(R', S', R')
            /\ R' >= R
            /\ R' <= R + 1
            /\ lastOp' = "Next" =>
                  /\ \A k \in 1 .. Len(Runs) :
                        k # R' + 1 => Runs'[k] = Runs[k]
                  /\ (fault' = "none" /\ ~lastRet') =>
                        /\ R' = RunCount - 1
                        /\ S' >= Len(Streets)
                        /\ dealLog' = LogThrough(RunCount - 1,
                                                 Len(Streets) - 1,
                                                 RunCount - 1) ]_vars

\* C20 witness: three runs branched on the first of three streets, all
\* dealt to the end
C20_Witness ==
    /\ RunCount = 3
    /\ ST = 0
    /\ Len(Streets) = 3
    /\ R = 2
    /\ lastOp = "Next"
    /\ ~lastRet
    /\ Active = Positions
    /\ dealLog = << <<0, 0>>, <<1, 0>>, <<2, 0>>, <<1, 1>>, <<2, 1>>,
                    <<1, 2>>, <<2, 2>> >>

\* C21 as stated: whatever Next, Deactivate and ChangeRuns calls came
\* before (a ChangeRuns accepted on the last street included), a Next that
\* goes on to Deal hands it a street index with 0 <= S < len(Streets) and
\* a run index with 0 <= R < len(Runs). A Next reaches Deal when it logs a
\* deal or stops in the index fault of Deal's first line.
C21_DealInRange ==
    [][ (lastOp' = "Next" /\ (dealLog' # dealLog \/ fault' = "index")) =>
            /\ 0 <= S' /\ S' < Len(Streets)
            /\ 0 <= R' /\ R' < Len(Runs') ]_vars

\* Next has halted: it has started, and either the last run is past its
\* last street or too few positions are active
Halted ==
    /\ 0 <= S
    /\ \/ Len(Streets) <= S /\ R = RunCount - 1
       \/ ~(TypeDesc.Max = 1 \/ 1 < Cardinality(Active))

\* Next has just returned false
ReturnedFalse == lastOp = "Next" /\ fault = "none" /\ ~lastRet

\* the street index has reached the bound of the model, which lies past the
\* last street: there a Next has returned false before
PastBound == Len(Streets) + MaxOver <= S

\* once Next has returned false the dealer is halted; it stays halted
\* through every call but Reset; and a Next of a halted dealer returns
\* false, draws no card and changes no run
HaltingAbsorbs ==
    [][ /\ ReturnedFalse' => Halted'
        /\ (Halted /\ lastOp' # "Reset") => Halted'
        /\ (Halted /\ lastOp' = "Next") =>
              /\ ReturnedFalse'
              /\ Deck' = Deck
              /\ Runs' = Runs ]_vars

\* the program has ended in ChangeRuns(0) and calls nothing more
Ended == fault = "makeslice"

\* from any state of a running program, if from then on only Next is
\* called, some call returns false
HaltingReached ==
    <>[][DealerNext]_vars => <>(ReturnedFalse \/ PastBound \/ Ended)

\* the same, for a Next that ends the program as well as one that returns
\* false
HaltingReachedOrFault ==
    <>[][DealerNext]_vars => <>(ReturnedFalse \/ PastBound \/ fault # "none")

\* C22 as stated: halting is reached and is absorbing. From any state,
\* calling Next again and again returns false after finitely many calls;
\* and once Next has returned false, every later Next until Reset,
\* whatever Deactivate, ChangeRuns and NextResult calls come between, also
\* returns false, draws no card from the deck and changes no run.
C22_HaltsAndStays == HaltingReached /\ HaltingAbsorbs

\* C2 as stated: the run Dupe returns equals the original by content in
\* all four parts (discard pile, pockets, Hi board, Lo board).
C2_EqualInAllParts ==
    memLast = "dupe" => ContentOf(heap, copy) = ContentOf(heap, orig)

\* C2 amended: the run Dupe returns equals the original by content in the
\* pockets of every position and in the Hi and Lo boards, and its discard
\* pile is empty; its storage is its own: an append to, or a change of, a
\* pocket, a board or the discards of either run leaves the other run as
\* it was.
C2_DupeIndependent ==
    [][ /\ memLast' = "dupe" =>
              LET o == ContentOf(heap', orig')
                  c == ContentOf(heap', copy')
              IN  /\ DOMAIN c.Pockets = DOMAIN o.Pockets
                  /\ \A i \in DOMAIN o.Pockets : c.Pockets[i] = o.Pockets[i]
                  /\ c.Hi = o.Hi
                  /\ c.Lo = o.Lo
                  /\ c.Discard = << >>
                  /\ c = Dupe(o)
                  /\ o = ContentOf(heap, orig)
        /\ memLast' = "orig" =>
              ContentOf(heap', copy') = ContentOf(heap, copy)
        /\ memLast' = "copy" =>
              ContentOf(heap', orig') = ContentOf(heap, orig) ]_vars

\* C2 witness: the duplicate of a run holding discards, pockets and both
\* boards was written through, and the original still holds its cards
C2_Witness ==
    /\ memLast = "copy"
    /\ memOps = MaxMemOps
    /\ ContentOf(heap, orig).Discard # << >>
    /\ ContentOf(heap, orig).Hi # << >>
    /\ ContentOf(heap, orig).Lo # << >>
    /\ ContentOf(heap, orig).Pockets[0] # << >>
    /\ ContentOf(heap, copy).Hi # ContentOf(heap, orig).Hi
    /\ ContentOf(heap, copy).Pockets[0] # ContentOf(heap, orig).Pockets[0]

====
